---- MODULE Spec2Model ----
(***************************************************************************)
(* Model of the duplicate finder of src/main.go (package process):         *)
(* StartWatch starts one aggregator goroutine (StartDuplicateFind) and one *)
(* root walker goroutine (StartContentChanges); walkers spawn further      *)
(* walker goroutines under the admission control of Options.AddWorker /    *)
(* Options.RemoveWorker, and hand their events to the aggregator over an   *)
(* unbuffered channel.                                                     *)
(*                                                                         *)
(* Granularity: one action per access to shared state (the mutex of        *)
(* Options, the channel, the two WaitGroups, standard input); the local    *)
(* statements between two such accesses belong to the action they follow.  *)
(***************************************************************************)
EXTENDS Integers, Sequences, FiniteSets, TLC

\* ------------------------------------------------------------------ bounds

\* The input stream holds at most MaxInvalid lines other than "y" and "n".
MaxInvalid == 2

\* The configured maxCountThread is drawn from {-1} \cup 0..MaxCfgThreads.
MaxCfgThreads == 3

\* ------------------------------------------------------- the scanned trees

\* A directory entry as os.Stat / os.Open see it.
File(name, size) ==
    [name |-> name, isDir |-> FALSE, size |-> size, child |-> 0,
     statErr |-> FALSE, openErr |-> FALSE]

SubDir(name, child) ==
    [name |-> name, isDir |-> TRUE, size |-> 0, child |-> child,
     statErr |-> FALSE, openErr |-> FALSE]

\* An entry that disappears between the listing and os.Stat.
Vanished(name) ==
    [name |-> name, isDir |-> FALSE, size |-> 0, child |-> 0,
     statErr |-> TRUE, openErr |-> FALSE]

\* A subdirectory os.Open refuses.
Locked(name) ==
    [name |-> name, isDir |-> TRUE, size |-> 0, child |-> 0,
     statErr |-> FALSE, openErr |-> TRUE]

Listing(entries) == [listErr |-> FALSE, entries |-> entries]

Unreadable == [listErr |-> TRUE, entries |-> <<>>]

\* Directory 1 is the directory given to StartWatch; entries are in the
\* order Readdirnames returns them.
Trees ==
    << \* three files a/10 in three directories walked side by side, and a
       \* file of its own after them
       << Listing(<< SubDir("s", 2), File("a", 10), SubDir("t", 3),
                     File("c", 1) >>),
          Listing(<< File("a", 10) >>),
          Listing(<< File("a", 10) >>) >>,
       \* nested directories, two walkers that want the last slot
       << Listing(<< SubDir("s", 2), SubDir("t", 3) >>),
          Listing(<< SubDir("u", 4), File("b", 7) >>),
          Listing(<< File("b", 7) >>),
          Listing(<< >>) >>,
       \* names and sizes whose concatenations meet, an empty directory
       << Listing(<< File("a", 10), SubDir("s", 2), File("a1", 0) >>),
          Listing(<< File("a", 20), SubDir("e", 3) >>),
          Listing(<< >>) >>,
       \* errors below the root
       << Listing(<< SubDir("s", 2), File("b", 5), SubDir("t", 3) >>),
          Unreadable,
          Listing(<< File("b", 5), Locked("w"), File("c", 1) >>) >>,
       \* an error in the root itself
       << Listing(<< File("a", 10), Vanished("z"), File("a", 10) >>) >>,
       \* an empty root
       << Listing(<< >>) >>,
       \* an entry that vanishes below the root, a sibling after it
       << Listing(<< SubDir("s", 2), File("b", 5), SubDir("t", 3) >>),
          Listing(<< File("c", 1), Vanished("x"), File("d", 2) >>),
          Listing(<< File("e", 3) >>) >>,
       \* a root that cannot be listed
       << Unreadable >> >>

TreeIds == DOMAIN Trees

RootPath == "r"

RootDir == 1

\* ------------------------------------------------------------------- state

VARIABLES
    tree,                   \* which tree is scanned
    mustConfirmationDelete, \* Options.mustConfirmationDelete
    needRemoveDuplicate,    \* Options.needRemoveDuplicate
    maxCountThread,         \* Options.maxCountThread
    currentThreadCount,     \* Options.currentThreadCount
    mux,                    \* Options.mux: 0 when free, else the holder
    proc,                   \* "running", or "exited" after hLog.Fatalf
    swPc,                   \* position of StartWatch
    wg,                     \* counter of the walkers' WaitGroup
    wgDupl,                 \* counter of the aggregator's WaitGroup
    chanClosed,             \* close(chanDupl) has run
    task,                   \* walker goroutines, by the directory they start in
    aggPc,                  \* position of StartDuplicateFind
    fd,                     \* the event StartDuplicateFind is handling
    mapFiles,               \* StartDuplicateFind's mapFiles (its keys)
    recvd,                  \* events received from the channel, in order
    out,                    \* what StartDuplicateFind reported, in order
    lines,                  \* lines scanned for the current prompt
    invalidUsed,            \* invalid lines read from standard input so far
    stdinEOF                \* scanner.Scan() has returned false

vars ==
    << tree, mustConfirmationDelete, needRemoveDuplicate, maxCountThread,
       currentThreadCount, mux, proc, swPc, wg, wgDupl, chanClosed, task,
       aggPc, fd, mapFiles, recvd, out, lines, invalidUsed, stdinEOF >>

optVars == << mustConfirmationDelete, needRemoveDuplicate, maxCountThread >>

aggVars == << aggPc, fd, mapFiles, recvd, out, lines, invalidUsed, stdinEOF >>

DirIds == DOMAIN Trees[tree]

Dir(d) == Trees[tree][d]

\* ---------------------------------------------------------------- helpers

\* int16 arithmetic of Options.currentThreadCount.
Int16(n) == ((n + 32768) % 65536) - 32768

\* uint16 arithmetic of idWorker.
Uint16(n) == n % 65536

Digits == "0123456789"

\* strconv of a non-negative integer, as the %d verb prints it.
RECURSIVE Itoa(_)
Itoa(n) ==
    IF n < 10
    THEN SubSeq(Digits, n + 1, n + 1)
    ELSE Itoa(n \div 10) \o SubSeq(Digits, (n % 10) + 1, (n % 10) + 1)

\* A key made of the name alone.
sMapKeyNameOnly(fileName, fileSize) == fileName

\* A key that leaves out the separator of the format string.
sMapKeyNoSeparator(fileName, fileSize) == fileName \o Itoa(fileSize)

\* fmt.Sprintf("%s_%d", fd.FileName, fd.FileSize)
sMapKey(fileName, fileSize) == fileName \o "_" \o Itoa(fileSize)

\* sDir.Name() + "/" + name
Join(dirName, name) == dirName \o "/" \o name

\* FindDuplicate{DirName: sDir.Name()}
DirEvent(dirName) ==
    [DirName |-> dirName, FileName |-> "", FileSize |-> 0, workerId |-> 0]

\* FindDuplicate{DirName: sDir.Name(), FileName: st.Name(), FileSize: st.Size()}
FileEvent(dirName, e) ==
    [DirName |-> dirName, FileName |-> e.name, FileSize |-> e.size, workerId |-> 0]

\* A lock that excludes nobody.
MuxFreeNoExclusion == TRUE

\* Options.mux can be taken (Lock, and RLock: no writer holds it).
MuxFree == mux = 0

\* An admission test that is off by one.
AddWorkerAdmitsOffByOne(maxCount, current) == maxCount = -1 \/ current <= maxCount

\* The condition of AddWorker.
AddWorkerAdmits(maxCount, current) == maxCount = -1 \/ current < maxCount

\* A wait that returns while one participant is still running.
WaitReturnsEarly(counter) == counter <= 1

\* sync.WaitGroup.Wait returns when the counter is zero.
WaitReturns(counter) == counter = 0

\* A goroutine that leaves without wg.Done().
DoneForgotten(counter) == counter

\* sync.WaitGroup.Done
Done(counter) == counter - 1

\* An aggregator that does not remember the keys it has seen.
InsertForgets(files, key) == files

\* A map that keeps only the key stored last.
InsertReplaces(files, key) == {key}

\* mapFiles[sMapKey] = struct{}{}
Insert(files, key) == files \cup {key}

\* A prompt that gives up on any input.
EndsLoopOnAnyInput(txt) == TRUE

\* The cases of the switch that set fl = false.
EndsLoop(txt) == txt \in {"y", "n"}

NoTask ==
    [st |-> "none", pc |-> "none", stack |-> <<>>, err |-> FALSE, walked |-> {}]

Frame(d, path, wid) == [dir |-> d, path |-> path, i |-> 1, wid |-> wid]

Top(t) == task[t].stack[Len(task[t].stack)]

Entries(t) == Dir(Top(t).dir).entries

Entry(t) == Entries(t)[Top(t).i]

Running(t) == proc = "running" /\ task[t].st = "run"

\* The stack with its top frame moved to the next entry.
Advance(stack) ==
    [stack EXCEPT ![Len(stack)] = [@ EXCEPT !.i = @ + 1]]

\* A walk whose in-line caller hands the error on instead of dropping it.
ReturnPropagatesError(r, e) ==
    IF e
    THEN [r EXCEPT !.stack = <<>>, !.pc = "exit", !.err = TRUE]
    ELSE IF Len(r.stack) > 1
    THEN [r EXCEPT !.stack = Advance(SubSeq(@, 1, Len(@) - 1)),
                   !.pc = "loop",
                   !.walked = @ \cup {r.stack[Len(r.stack)].dir}]
    ELSE [r EXCEPT !.stack = <<>>, !.pc = "exit", !.err = FALSE,
                   !.walked = @ \cup {r.stack[Len(r.stack)].dir}]

\* StartContentChanges returns e in the goroutine r; an in-line caller
\* (line 373) drops the result and goes on with its next entry, a
\* goroutine's function goes on to its exit. walked records the
\* directories whose walk returned nil.
Return(r, e) ==
    LET done == IF e THEN r.walked ELSE r.walked \cup {r.stack[Len(r.stack)].dir}
    IN  IF Len(r.stack) > 1
        THEN [r EXCEPT !.stack = Advance(SubSeq(@, 1, Len(@) - 1)),
                       !.pc = "loop", !.walked = done]
        ELSE [r EXCEPT !.stack = <<>>, !.pc = "exit", !.err = e,
                       !.walked = done]

\* A loop that stops one entry short of the end of the listing.
LastIndexSkipsLast(entries) == Len(entries) - 1

\* for _, s := range fileNames (line 342) visits indices 1..len.
LastIndex(entries) == Len(entries)

\* Lines 333-381 between two accesses to shared state: the goroutine r,
\* at Readdirnames ("list") or at the head of the loop ("loop"), runs to
\* its next send, its next AddWorker or the exit of its function.
RECURSIVE Walk(_)
Walk(r) ==
    IF r.pc \notin {"list", "loop"} THEN r
    ELSE
      LET top == r.stack[Len(r.stack)]
          d == Trees[tree][top.dir]
      IN  IF r.pc = "list"
          THEN IF d.listErr
               THEN Walk(Return(r, TRUE))
               ELSE Walk([r EXCEPT !.pc = "loop"])
          ELSE IF top.i > LastIndex(d.entries) THEN Walk(Return(r, FALSE))
          ELSE IF d.entries[top.i].statErr THEN Walk(Return(r, TRUE))
          ELSE IF ~d.entries[top.i].isDir THEN [r EXCEPT !.pc = "sendFile"]
          ELSE IF d.entries[top.i].openErr THEN Walk(Return(r, TRUE))
          ELSE [r EXCEPT !.pc = "aw_lock"]

\* ----------------------------------------------------------------- Init

Init ==
    /\ tree \in TreeIds
    /\ mustConfirmationDelete \in BOOLEAN
    /\ needRemoveDuplicate \in BOOLEAN
    /\ maxCountThread \in {-1} \cup 0..MaxCfgThreads
    /\ currentThreadCount = 0
    /\ mux = 0
    /\ proc = "running"
    /\ swPc = "init"
    /\ wg = 0
    /\ wgDupl = 0
    /\ chanClosed = FALSE
    /\ task = [d \in DOMAIN Trees[tree] |-> NoTask]
    /\ aggPc = "none"
    /\ fd = DirEvent("")
    /\ mapFiles = {}
    /\ recvd = <<>>
    /\ out = <<>>
    /\ lines = <<>>
    /\ invalidUsed = 0
    /\ stdinEOF = FALSE

\* ------------------------------------------------------------ StartWatch

\* Lines 293-309: the channel, the aggregator goroutine, wg.Add(1) and the
\* root walker goroutine.
SWStart ==
    /\ proc = "running"
    /\ swPc = "init"
    /\ wgDupl' = wgDupl + 1
    /\ aggPc' = "recv"
    /\ wg' = wg + 1
    /\ task' = [task EXCEPT ![RootDir] =
                  [st |-> "run", pc |-> "set",
                   stack |-> << Frame(RootDir, RootPath, 1) >>, err |-> FALSE,
                   walked |-> {}]]
    /\ swPc' = "wait"
    /\ UNCHANGED << tree, optVars, currentThreadCount, mux, proc, chanClosed,
                    fd, mapFiles, recvd, out, lines, invalidUsed, stdinEOF >>

\* Line 312: wg.Wait() returns.
SWWait ==
    /\ proc = "running"
    /\ swPc = "wait"
    /\ WaitReturns(wg)
    /\ swPc' = "close"
    /\ UNCHANGED << tree, optVars, currentThreadCount, mux, proc, wg, wgDupl,
                    chanClosed, task, aggVars >>

\* Line 315: close(chanDupl).
SWClose ==
    /\ proc = "running"
    /\ swPc = "close"
    /\ chanClosed' = TRUE
    /\ swPc' = "waitDupl"
    /\ UNCHANGED << tree, optVars, currentThreadCount, mux, proc, wg, wgDupl,
                    task, aggVars >>

\* Lines 317-319: wgDupl.Wait() returns, StartWatch returns nil.
SWReturn ==
    /\ proc = "running"
    /\ swPc = "waitDupl"
    /\ WaitReturns(wgDupl)
    /\ swPc' = "returned"
    /\ UNCHANGED << tree, optVars, currentThreadCount, mux, proc, wg, wgDupl,
                    chanClosed, task, aggVars >>

\* ---------------------------------------------------------------- walkers

\* Line 302: options.CurrentThreadCountSet(1), first statement of the root
\* walker goroutine.
RootSetCount(t) ==
    /\ Running(t)
    /\ task[t].pc = "set"
    /\ MuxFree
    /\ currentThreadCount' = 1
    /\ task' = [task EXCEPT ![t].pc = "start"]
    /\ UNCHANGED << tree, optVars, mux, proc, swPc, wg, wgDupl, chanClosed,
                    aggVars >>

\* A walker that announces the directory whatever the flag.
WalkEnterAlwaysAnnounces(t) ==
    /\ Running(t)
    /\ task[t].pc = "start"
    /\ MuxFree
    /\ task' = [task EXCEPT ![t].pc = "sendDir"]
    /\ UNCHANGED << tree, optVars, currentThreadCount, mux, proc, swPc, wg,
                    wgDupl, chanClosed, aggVars >>

\* A walker that never announces the directory.
WalkEnterNeverAnnounces(t) ==
    /\ Running(t)
    /\ task[t].pc = "start"
    /\ MuxFree
    /\ task' = [task EXCEPT ![t] = Walk([@ EXCEPT !.pc = "list"])]
    /\ UNCHANGED << tree, optVars, currentThreadCount, mux, proc, swPc, wg,
                    wgDupl, chanClosed, aggVars >>

\* Lines 326-331: with confirmation the directory is announced on the
\* channel; without it the directory is only logged and printed and the
\* walk goes on.
WalkEnter(t) ==
    /\ Running(t)
    /\ task[t].pc = "start"
    /\ MuxFree
    /\ task' = [task EXCEPT ![t] =
                  IF mustConfirmationDelete
                  THEN [@ EXCEPT !.pc = "sendDir"]
                  ELSE Walk([@ EXCEPT !.pc = "list"])]
    /\ UNCHANGED << tree, optVars, currentThreadCount, mux, proc, swPc, wg,
                    wgDupl, chanClosed, aggVars >>

\* A walker that passes over the subdirectory when AddWorker denies it.
AddWorkerLockSkipsDenied(t) ==
    /\ Running(t)
    /\ task[t].pc = "aw_lock"
    /\ MuxFree
    /\ IF AddWorkerAdmits(maxCountThread, currentThreadCount)
       THEN /\ mux' = t
            /\ task' = [task EXCEPT ![t].pc = "aw_incr"]
       ELSE /\ mux' = 0
            /\ task' = [task EXCEPT ![t] =
                 Walk([@ EXCEPT !.stack = Advance(@), !.pc = "loop"])]
    /\ UNCHANGED << tree, optVars, currentThreadCount, proc, swPc, wg, wgDupl,
                    chanClosed, aggVars >>

\* Lines 199-202 and 373: AddWorker takes the lock and tests the budget.
\* When it is exhausted AddWorker unlocks and returns false, and the
\* subdirectory is walked in this task, with this task's idWorker.
AddWorkerLock(t) ==
    /\ Running(t)
    /\ task[t].pc = "aw_lock"
    /\ MuxFree
    /\ IF AddWorkerAdmits(maxCountThread, currentThreadCount)
       THEN /\ mux' = t
            /\ task' = [task EXCEPT ![t].pc = "aw_incr"]
       ELSE /\ mux' = 0
            /\ task' = [task EXCEPT ![t] = [@ EXCEPT
                 !.stack = Append(@, Frame(Entry(t).child,
                                           Join(Top(t).path, Entry(t).name),
                                           Top(t).wid)),
                 !.pc = "start"]]
    /\ UNCHANGED << tree, optVars, currentThreadCount, proc, swPc, wg, wgDupl,
                    chanClosed, aggVars >>

\* Lines 203-204 and 365-371: AddWorker increments, unlocks and returns
\* true; the caller adds to wg and starts a goroutine that walks the
\* subdirectory with idWorker+1, and goes on with its next entry.
AddWorkerIncr(t) ==
    /\ Running(t)
    /\ task[t].pc = "aw_incr"
    /\ currentThreadCount' = Int16(currentThreadCount + 1)
    /\ mux' = 0
    /\ wg' = wg + 1
    /\ task' = [task EXCEPT
         ![Entry(t).child] =
             [st |-> "run", pc |-> "start",
              stack |-> << Frame(Entry(t).child,
                                 Join(Top(t).path, Entry(t).name),
                                 Uint16(Top(t).wid + 1)) >>,
              err |-> FALSE, walked |-> {}],
         ![t] = Walk([@ EXCEPT !.stack = Advance(@), !.pc = "loop"])]
    /\ UNCHANGED << tree, optVars, proc, swPc, wgDupl, chanClosed, aggVars >>

\* A root goroutine that only logs the error and leaves normally.
RootErrorOnlyLogged(t) ==
    /\ Running(t)
    /\ t = RootDir
    /\ task[t].pc = "exit"
    /\ task[t].err
    /\ wg' = wg - 1
    /\ task' = [task EXCEPT ![t] = [@ EXCEPT !.st = "done", !.pc = "done"]]
    /\ UNCHANGED << tree, optVars, currentThreadCount, mux, proc, swPc, wgDupl,
                    chanClosed, aggVars >>

\* Lines 304-306: the root walk returned an error, hLog.Fatalf ends the
\* process.
RootFatal(t) ==
    /\ Running(t)
    /\ t = RootDir
    /\ task[t].pc = "exit"
    /\ task[t].err
    /\ proc' = "exited"
    /\ UNCHANGED << tree, optVars, currentThreadCount, mux, swPc, wg, wgDupl,
                    chanClosed, task, aggVars >>

\* Line 308: the root walk returned nil, the deferred wg.Done() runs.
RootDone(t) ==
    /\ Running(t)
    /\ t = RootDir
    /\ task[t].pc = "exit"
    /\ ~task[t].err
    /\ wg' = Done(wg)
    /\ task' = [task EXCEPT ![t] = [@ EXCEPT !.st = "done", !.pc = "done"]]
    /\ UNCHANGED << tree, optVars, currentThreadCount, mux, proc, swPc, wgDupl,
                    chanClosed, aggVars >>

\* A goroutine that gives its slot back only when its walk succeeded.
RemoveWorkerOnlyOnSuccess(t) ==
    /\ Running(t)
    /\ t # RootDir
    /\ task[t].pc = "exit"
    /\ MuxFree
    /\ currentThreadCount' =
          IF task[t].err THEN currentThreadCount
          ELSE Int16(currentThreadCount - 1)
    /\ task' = [task EXCEPT ![t].pc = "wg_done"]
    /\ UNCHANGED << tree, optVars, mux, proc, swPc, wg, wgDupl, chanClosed,
                    aggVars >>

\* Lines 370 and 211-216: the spawned goroutine's walk returned (nil or
\* not); the deferred RemoveWorker locks, decrements and unlocks.
RemoveWorker(t) ==
    /\ Running(t)
    /\ t # RootDir
    /\ task[t].pc = "exit"
    /\ MuxFree
    /\ currentThreadCount' = Int16(currentThreadCount - 1)
    /\ task' = [task EXCEPT ![t].pc = "wg_done"]
    /\ UNCHANGED << tree, optVars, mux, proc, swPc, wg, wgDupl, chanClosed,
                    aggVars >>

\* Line 369: the spawned goroutine's deferred wg.Done().
ChildDone(t) ==
    /\ Running(t)
    /\ task[t].pc = "wg_done"
    /\ wg' = Done(wg)
    /\ task' = [task EXCEPT ![t] = [@ EXCEPT !.st = "done", !.pc = "done"]]
    /\ UNCHANGED << tree, optVars, currentThreadCount, mux, proc, swPc, wgDupl,
                    chanClosed, aggVars >>

\* ------------------------------------------------------------ aggregator

Sending(t) == task[t].st = "run" /\ task[t].pc \in {"sendDir", "sendFile"}

\* The event a walker blocked at line 327 or 377 is sending.
Pending(t) ==
    IF task[t].pc = "sendDir"
    THEN DirEvent(Top(t).path)
    ELSE FileEvent(Top(t).path, Entry(t))

FilePath(ev) == Join(ev.DirName, ev.FileName)

Report(kind, ev) == [kind |-> kind, file |-> FilePath(ev)]

\* A channel whose receiver takes events while it is inside the prompt.
RecvDuringPrompt(t) ==
    /\ proc = "running"
    /\ Sending(t)
    /\ aggPc \in {"recv", "prompt"}
    /\ ~chanClosed
    /\ fd' = IF aggPc = "recv" THEN Pending(t) ELSE fd
    /\ recvd' = Append(recvd, Pending(t))
    /\ aggPc' = IF aggPc = "recv" THEN "got" ELSE aggPc
    /\ task' = [task EXCEPT ![t] =
                  IF @.pc = "sendDir"
                  THEN Walk([@ EXCEPT !.pc = "list"])
                  ELSE Walk([@ EXCEPT !.stack = Advance(@), !.pc = "loop"])]
    /\ UNCHANGED << tree, optVars, currentThreadCount, mux, proc, swPc, wg,
                    wgDupl, chanClosed, mapFiles, out, lines, invalidUsed,
                    stdinEOF >>

\* Lines 230, 327 and 377: the unbuffered channel hands one walker's event
\* to the range loop; the walker goes on to list the directory, or to its
\* next entry.
Recv(t) ==
    /\ proc = "running"
    /\ Sending(t)
    /\ aggPc = "recv"
    /\ ~chanClosed
    /\ fd' = Pending(t)
    /\ recvd' = Append(recvd, Pending(t))
    /\ aggPc' = "got"
    /\ task' = [task EXCEPT ![t] =
                  IF @.pc = "sendDir"
                  THEN Walk([@ EXCEPT !.pc = "list"])
                  ELSE Walk([@ EXCEPT !.stack = Advance(@), !.pc = "loop"])]
    /\ UNCHANGED << tree, optVars, currentThreadCount, mux, proc, swPc, wg,
                    wgDupl, chanClosed, mapFiles, out, lines, invalidUsed,
                    stdinEOF >>

\* Lines 233-284 up to the prompt: a directory announcement is skipped, a
\* new key is stored, a known key is a duplicate, which is either put to
\* the user or printed as deleted.
AggHandle ==
    /\ proc = "running"
    /\ aggPc = "got"
    /\ MuxFree
    /\ LET key == sMapKey(fd.FileName, fd.FileSize) IN
       IF mustConfirmationDelete /\ fd.FileName = ""
       THEN /\ aggPc' = "recv"
            /\ UNCHANGED << mapFiles, out, lines >>
       ELSE IF key \notin mapFiles
       THEN /\ mapFiles' = Insert(mapFiles, key)
            /\ aggPc' = "recv"
            /\ UNCHANGED << out, lines >>
       ELSE IF mustConfirmationDelete /\ needRemoveDuplicate
       THEN /\ out' = out \o << Report("duplicate", fd), Report("ask", fd) >>
            /\ lines' = <<>>
            /\ aggPc' = "prompt"
            /\ UNCHANGED mapFiles
       ELSE /\ out' = out \o << Report("duplicate", fd), Report("deleted", fd) >>
            /\ aggPc' = "recv"
            /\ UNCHANGED << mapFiles, lines >>
    /\ UNCHANGED << tree, optVars, currentThreadCount, mux, proc, swPc, wg,
                    wgDupl, chanClosed, task, fd, recvd, invalidUsed, stdinEOF >>

InvalidLines == {"x"}

\* Lines 255-275: scanner.Scan() delivers one line; "y" and "n" end the
\* loop, anything else asks again.
AggScan(txt) ==
    /\ proc = "running"
    /\ aggPc = "prompt"
    /\ ~stdinEOF
    /\ txt \in InvalidLines => invalidUsed < MaxInvalid
    /\ lines' = Append(lines, txt)
    /\ invalidUsed' = IF txt \in InvalidLines THEN invalidUsed + 1 ELSE invalidUsed
    /\ out' = Append(out, Report(CASE txt = "y" -> "deleted"
                                   [] txt = "n" -> "skip"
                                   [] OTHER -> "retry", fd))
    /\ aggPc' = IF EndsLoop(txt) THEN "recv" ELSE "prompt"
    /\ UNCHANGED << tree, optVars, currentThreadCount, mux, proc, swPc, wg,
                    wgDupl, chanClosed, task, fd, mapFiles, recvd, stdinEOF >>

\* Lines 254-255: standard input ends; scanner.Scan() returns false from
\* now on and the loop "for fl" never ends.
AggScanEOF ==
    /\ proc = "running"
    /\ aggPc = "prompt"
    /\ ~stdinEOF
    /\ stdinEOF' = TRUE
    /\ UNCHANGED << tree, optVars, currentThreadCount, mux, proc, swPc, wg,
                    wgDupl, chanClosed, task, aggPc, fd, mapFiles, recvd, out,
                    lines, invalidUsed >>

\* Lines 225-226 and 230: the channel is closed, the range loop ends and
\* the deferred wg.Done() runs.
AggDone ==
    /\ proc = "running"
    /\ aggPc = "recv"
    /\ chanClosed
    /\ aggPc' = "done"
    /\ wgDupl' = Done(wgDupl)
    /\ UNCHANGED << tree, optVars, currentThreadCount, mux, proc, swPc, wg,
                    chanClosed, task, fd, mapFiles, recvd, out, lines,
                    invalidUsed, stdinEOF >>

\* ------------------------------------------------------------------ Next

Answer == AggScan("y") \/ AggScan("n")

ProgramStep ==
    \/ SWStart
    \/ SWWait
    \/ SWClose
    \/ SWReturn
    \/ \E t \in DirIds : RootSetCount(t)
    \/ \E t \in DirIds : WalkEnter(t)
    \/ \E t \in DirIds : AddWorkerLock(t)
    \/ \E t \in DirIds : AddWorkerIncr(t)
    \/ \E t \in DirIds : RootFatal(t)
    \/ \E t \in DirIds : RootDone(t)
    \/ \E t \in DirIds : RemoveWorker(t)
    \/ \E t \in DirIds : ChildDone(t)
    \/ \E t \in DirIds : Recv(t)
    \/ AggHandle
    \/ AggDone

Next ==
    \/ ProgramStep
    \/ Answer
    \/ \E txt \in InvalidLines : AggScan(txt)
    \/ AggScanEOF

Spec == Init /\ [][Next]_vars

\* Every runnable goroutine is eventually scheduled, and a user who is
\* asked eventually answers "y" or "n".
FairSpec == Spec /\ WF_vars(ProgramStep) /\ WF_vars(Answer)

\* ------------------------------------------------- vocabulary of the claims

IsFile(ev) == ev.FileName # ""

SameIdentity(e1, e2) == e1.FileName = e2.FileName /\ e1.FileSize = e2.FileSize

\* The aggregator reported the event as a duplicate.
Flagged(ev) == \E k \in 1..Len(out) : out[k] = Report("duplicate", ev)

\* The j-th received event has been through the body of the range loop.
Handled(j) == j < Len(recvd) \/ aggPc # "got"

Interactive == mustConfirmationDelete /\ needRemoveDuplicate

ErrorFree ==
    \A d \in DirIds :
        /\ ~Dir(d).listErr
        /\ \A k \in 1..Len(Dir(d).entries) :
               ~Dir(d).entries[k].statErr /\ ~Dir(d).entries[k].openErr

Identity(ev) ==
    [DirName |-> ev.DirName, FileName |-> ev.FileName, FileSize |-> ev.FileSize]

\* The regular files under directory d, whose path is path.
RECURSIVE FilesUnder(_, _)
FilesUnder(d, path) ==
    UNION { IF e.isDir
            THEN IF e.child \in DirIds
                 THEN FilesUnder(e.child, Join(path, e.name))
                 ELSE {}
            ELSE {[DirName |-> path, FileName |-> e.name, FileSize |-> e.size]}
          : e \in {Dir(d).entries[k] : k \in 1..Len(Dir(d).entries)} }

ReceivedFiles == {k \in 1..Len(recvd) : IsFile(recvd[k])}

Spawned == {t \in DirIds \ {RootDir} : task[t].st # "none"}

AllWalkersDone == \A t \in DirIds : task[t].st \in {"none", "done"}

\* ------------------------------------------------------------------ claims

\* C1 (as claimed): for every configured maxCountThread >= 0 the counter
\* currentThreadCount never exceeds maxCountThread and never goes below 0.
\* The root walker takes its slot with CurrentThreadCountSet(1) without
\* asking AddWorker, so with maxCountThread = 0 the counter is 1.
C1_CountWithinBudget ==
    maxCountThread >= 0 =>
        currentThreadCount >= 0 /\ currentThreadCount <= maxCountThread

\* C2: AddWorker is atomic. A call that finds maxCountThread = -1 or
\* currentThreadCount < maxCountThread is admitted, and when it increments
\* the counter the capacity it found is still there and the counter grows
\* by exactly one; any other call is denied and changes no field of
\* Options. So of two calls racing for the last slot only one is admitted.
C2_AddWorkerAtomic ==
    [][\A t \in DirIds :
         /\ (task[t].pc = "aw_lock" /\ task'[t].pc # "aw_lock") =>
               IF maxCountThread = -1 \/ currentThreadCount < maxCountThread
               THEN task'[t].pc = "aw_incr"
               ELSE /\ task'[t].pc = "start"
                    /\ Len(task'[t].stack) = Len(task[t].stack) + 1
                    /\ currentThreadCount' = currentThreadCount
                    /\ UNCHANGED optVars
                    /\ \A u \in DirIds : task'[u].st = task[u].st
         /\ (task[t].pc = "aw_incr" /\ task'[t].pc # "aw_incr") =>
               /\ maxCountThread = -1 \/ currentThreadCount < maxCountThread
               /\ currentThreadCount' = currentThreadCount + 1
               /\ UNCHANGED optVars
    ]_vars

\* Two walkers call AddWorker while one slot remains: one is inside, the
\* other waits for the lock.
C2_Witness ==
    \E t, u \in DirIds :
        /\ t # u
        /\ task[t].pc = "aw_incr"
        /\ task[u].pc = "aw_lock"
        /\ currentThreadCount = maxCountThread - 1

\* C3 (as claimed): of any two file events with equal name and size, the
\* one received first is never classified as a duplicate and the one
\* received later always is.
C3_EarlierOfAnyPairNotFlagged ==
    \A i, j \in ReceivedFiles :
        (i < j /\ SameIdentity(recvd[i], recvd[j])) =>
            /\ ~Flagged(recvd[i])
            /\ Handled(j) => Flagged(recvd[j])

\* C3 (amended): among the file events with one name and size, the one
\* received first of all is never classified as a duplicate and every one
\* received after it is.
C3_FirstOfIdentityNotFlagged ==
    \A i, j \in ReceivedFiles :
        (i < j /\ SameIdentity(recvd[i], recvd[j])) =>
            /\ (\A h \in ReceivedFiles :
                    h < i => ~SameIdentity(recvd[h], recvd[i]))
                   => ~Flagged(recvd[i])
            /\ Handled(j) => Flagged(recvd[j])

\* Three files of one name and size have been handled: the first is not
\* flagged, the second and the third are.
C3_Witness ==
    \E i, j, k \in ReceivedFiles :
        /\ i < j /\ j < k /\ Handled(k)
        /\ SameIdentity(recvd[i], recvd[j]) /\ SameIdentity(recvd[j], recvd[k])
        /\ ~Flagged(recvd[i]) /\ Flagged(recvd[j]) /\ Flagged(recvd[k])

\* C4: a file event whose (name, size) pair differs from the pair of
\* every file event received before it is never classified as a
\* duplicate.
C4_DistinctNeverDuplicate ==
    \A j \in ReceivedFiles :
        (\A i \in ReceivedFiles :
             i < j => (recvd[i].FileName # recvd[j].FileName
                       \/ recvd[i].FileSize # recvd[j].FileSize))
            => ~Flagged(recvd[j])

\* Files a/10, a/20 and a1/0 have all been handled and nothing was
\* reported.
C4_Witness ==
    /\ \E i, j, k \in ReceivedFiles :
          /\ Handled(i) /\ Handled(j) /\ Handled(k)
          /\ recvd[i].FileName = "a" /\ recvd[i].FileSize = 10
          /\ recvd[j].FileName = "a" /\ recvd[j].FileSize = 20
          /\ recvd[k].FileName = "a1" /\ recvd[k].FileSize = 0
    /\ out = <<>>

\* The files whose events the aggregator has received.
ReceivedIdentities == {Identity(recvd[k]) : k \in ReceivedFiles}

WalkedDirs == UNION {task[t].walked : t \in DirIds}

\* C5: on an error-free tree a scan with maxCountThread = 1 walks every
\* directory and delivers the same file events as a scan with
\* maxCountThread = -1 (both deliver every regular file under the root
\* once), and with maxCountThread = 1 no AddWorker call is admitted and no
\* walker other than the root is started.
C5_BudgetOneSameCoverage ==
    (ErrorFree /\ maxCountThread \in {1, -1}) =>
        /\ swPc = "returned" =>
              /\ ReceivedIdentities = FilesUnder(RootDir, RootPath)
              /\ Cardinality(ReceivedFiles)
                    = Cardinality(FilesUnder(RootDir, RootPath))
              /\ WalkedDirs = DirIds
        /\ maxCountThread = 1 =>
              /\ Spawned = {}
              /\ \A t \in DirIds : task[t].pc # "aw_incr"

\* With maxCountThread = 1 the root alone has walked a tree of nested
\* directories, and StartWatch has returned.
C5_Witness ==
    /\ ErrorFree
    /\ maxCountThread = 1
    /\ swPc = "returned"
    /\ Cardinality(DirIds) >= 4
    /\ task[RootDir].walked = DirIds
    /\ ReceivedIdentities # {}

\* C6: the channel is closed only when the root walker and every spawned
\* walker have finished, so no walker is ever at a send on the closed
\* channel; the aggregator finishes only after the close, and StartWatch
\* returns only after the aggregator has finished.
C6_CloseAfterWalkers ==
    /\ chanClosed => AllWalkersDone
    /\ chanClosed => ~\E t \in DirIds : Sending(t)
    /\ aggPc = "done" => chanClosed
    /\ swPc = "returned" => aggPc = "done"

\* StartWatch has returned from a scan in which walkers were spawned.
C6_Witness ==
    /\ swPc = "returned"
    /\ chanClosed
    /\ Cardinality(Spawned) >= 3

\* C7: on a finite error-free tree, for maxCountThread = -1 or >= 1, with
\* fair scheduling and every prompt answered by "y" or "n" in the end
\* (standard input does not end first), every walker terminates, the
\* aggregator terminates and StartWatch returns.
C7_ScanTerminates ==
    (ErrorFree /\ (maxCountThread = -1 \/ maxCountThread >= 1)) =>
        <>(stdinEOF \/ (swPc = "returned" /\ aggPc = "done" /\ AllWalkersDone))

\* A scan with spawned walkers and an answered prompt has returned.
C7_Witness ==
    /\ ErrorFree
    /\ maxCountThread = -1
    /\ swPc = "returned"
    /\ Interactive
    /\ lines # <<>>
    /\ Cardinality(Spawned) >= 2

\* C8: on an error-free tree no event is received twice, every file event
\* received is a regular file under the root, when the aggregator ends
\* every regular file under the root has been received, and when
\* StartWatch returns no walker is left at a send.
C8_EveryFileOnce ==
    ErrorFree =>
        /\ \A i, j \in 1..Len(recvd) : i < j => recvd[i] # recvd[j]
        /\ ReceivedIdentities \subseteq FilesUnder(RootDir, RootPath)
        /\ aggPc = "done" => ReceivedIdentities = FilesUnder(RootDir, RootPath)
        /\ swPc = "returned" => (aggPc = "done" /\ ~\E t \in DirIds : Sending(t))

\* The aggregator has ended after receiving three files from three
\* walkers.
C8_Witness ==
    /\ ErrorFree
    /\ aggPc = "done"
    /\ Cardinality(ReceivedFiles) >= 3
    /\ Cardinality(Spawned) >= 2

AskIndexes == {k \in 1..Len(out) : out[k].kind = "ask"}

LastAsk == CHOOSE k \in AskIndexes : \A h \in AskIndexes : h <= k

Verdicts(file) ==
    {k \in 1..Len(out) : out[k].file = file /\ out[k].kind \in {"deleted", "skip"}}

\* C9: with both flags set, the reports that follow the latest question
\* match the lines scanned for it one for one: a line other than "y" and
\* "n" gives a re-prompt and leaves the aggregator in the loop, "y" gives
\* "deleted", "n" gives "skip", and that line is the last one scanned for
\* the duplicate; no duplicate gets more than one verdict.
C9_PromptLoop ==
    (Interactive /\ AskIndexes # {}) =>
        LET a == LastAsk
            n == Len(out) - a
        IN  /\ n = Len(lines)
            /\ \A k \in 1..n :
                   /\ out[a + k].file = out[a].file
                   /\ out[a + k].kind =
                        IF lines[k] = "y" THEN "deleted"
                        ELSE IF lines[k] = "n" THEN "skip" ELSE "retry"
                   /\ k < n => lines[k] \notin {"y", "n"}
            /\ aggPc = "prompt" <=> (n = 0 \/ lines[n] \notin {"y", "n"})
            /\ \A k \in AskIndexes :
                   /\ Cardinality(Verdicts(out[k].file)) <= 1
                   /\ (k # a \/ aggPc # "prompt")
                          => Cardinality(Verdicts(out[k].file)) = 1

\* Input "x", "x", "y": two re-prompts, then one deletion report, and the
\* loop has ended.
C9_Witness ==
    /\ Interactive
    /\ lines = << "x", "x", "y" >>
    /\ aggPc # "prompt"
    /\ Len(out) >= 4
    /\ [k \in 1..4 |-> out[Len(out) - 4 + k].kind]
          = << "ask", "retry", "retry", "deleted" >>

\* C10 (as claimed): a duplicate handled without user interaction is
\* reported as deleted if and only if needRemoveDuplicate is set. Line 280
\* prints the deletion whatever the flag.
C10_DeletedIffRemove ==
    ~Interactive =>
        \A k \in 1..Len(out) :
            out[k].kind = "duplicate" =>
                ((\E h \in 1..Len(out) :
                      out[h] = [kind |-> "deleted", file |-> out[k].file])
                 <=> needRemoveDuplicate)

\* Spawned walkers that still hold the slot AddWorker gave them.
Holding == {t \in Spawned : task[t].pc \notin {"wg_done", "done"}}

\* C11: every admitted AddWorker is matched by exactly one RemoveWorker,
\* run when the spawned walker ends, whether its walk returned nil or an
\* error: the counter is the root's slot plus the spawned walkers that
\* have not ended, and it is 1 again when StartWatch returns.
C11_ReleaseMatchesAdmission ==
    /\ task[RootDir].pc \notin {"none", "set"} =>
          currentThreadCount = 1 + Cardinality(Holding)
    /\ swPc = "returned" => currentThreadCount = 1

\* StartWatch has returned from a scan in which a spawned walker's walk
\* returned an error and another's returned nil.
C11_Witness ==
    /\ swPc = "returned"
    /\ currentThreadCount = 1
    /\ \E t, u \in Spawned : task[t].err /\ ~task[u].err

\* The walk of directory d itself meets a listing, stat or open error.
OwnError(d) ==
    \/ Dir(d).listErr
    \/ \E k \in 1..Len(Dir(d).entries) :
           Dir(d).entries[k].statErr \/ Dir(d).entries[k].openErr

Children(d) ==
    {Dir(d).entries[k].child : k \in 1..Len(Dir(d).entries)} \cap DirIds

RECURSIVE Subtree(_)
Subtree(d) == {d} \cup UNION {Subtree(c) : c \in Children(d)}

\* The directories, with their paths, at and below d in tree tr.
RECURSIVE DirsUnder(_, _, _)
DirsUnder(tr, d, path) ==
    {[dir |-> d, path |-> path]} \cup
    UNION { IF e.isDir /\ e.child \in DOMAIN Trees[tr]
            THEN DirsUnder(tr, e.child, Join(path, e.name))
            ELSE {}
          : e \in {Trees[tr][d].entries[k] : k \in 1..Len(Trees[tr][d].entries)} }

DirsOfTree == [tr \in TreeIds |-> DirsUnder(tr, RootDir, RootPath)]

AllDirs == DirsOfTree[tree]

\* The regular files listed in directory d itself, for every tree.
DirectFilesOfTree ==
    [tr \in TreeIds |->
        [d \in DOMAIN Trees[tr] |->
            UNION { {[DirName |-> p.path, FileName |-> e.name, FileSize |-> e.size]
                     : e \in {x \in {Trees[tr][d].entries[k] :
                                       k \in 1..Len(Trees[tr][d].entries)} :
                                ~x.isDir /\ ~x.statErr}}
                  : p \in {q \in DirsOfTree[tr] : q.dir = d} }]]

DirectFiles(d) == DirectFilesOfTree[tree][d]

Failing == {d \in DirIds \ {RootDir} : OwnError(d)}

\* The directories outside the subtree of every failing directory.
Outside == DirIds \ UNION {Subtree(d) : d \in Failing}

\* C12: when the walks of directories below the root fail (listing, stat,
\* open) and the root's own walk does not, only those walks are aborted:
\* under fair scheduling StartWatch returns, every directory outside the
\* failing directories' subtrees has been walked to its end, its files
\* have been received, and no walker spawned for such a directory ended
\* with an error.
C12_ErrorStaysInBranch ==
    (~OwnError(RootDir) /\ Failing # {}) =>
        <>(\/ stdinEOF
           \/ /\ swPc = "returned"
              /\ Outside \subseteq WalkedDirs
              /\ WalkedDirs \cap Failing = {}
              /\ UNION {DirectFiles(d) : d \in Outside} \subseteq ReceivedIdentities
              /\ \A t \in Spawned \cap Outside : ~task[t].err)

\* A stat error met in a directory walked in-line by the root: the root
\* went on, walked the sibling after it, and StartWatch returned.
C12_Witness ==
    /\ swPc = "returned"
    /\ Spawned = {}
    /\ \E d \in Failing :
           \E k \in 1..Len(Dir(d).entries) : Dir(d).entries[k].statErr
    /\ Cardinality(Outside) >= 2
    /\ Outside \subseteq task[RootDir].walked

\* C13: when the root walker's own walk meets an error (listing the
\* root, stat-ing or opening one of its entries), the root goroutine never
\* ends normally and StartWatch never returns nil.
C13_RootErrorIsFatal ==
    OwnError(RootDir) =>
        /\ swPc # "returned"
        /\ task[RootDir].st # "done"
        /\ task[RootDir].pc = "exit" => task[RootDir].err

\* The root sent a file, then met a stat error, and hLog.Fatalf ended the
\* process.
C13_Witness ==
    /\ OwnError(RootDir)
    /\ proc = "exited"
    /\ ReceivedFiles # {}
    /\ swPc = "wait"

ReceivedDirs == {k \in 1..Len(recvd) : ~IsFile(recvd[k])}

\* The directories whose walk has got past the announcement.
Entered ==
    {p \in AllDirs :
        \/ p.dir \in WalkedDirs
        \/ \E t \in DirIds : \E k \in 1..Len(task[t].stack) :
               /\ task[t].stack[k].dir = p.dir
               /\ k < Len(task[t].stack) \/ task[t].pc \notin {"set", "start", "sendDir"}}

\* C14: with mustConfirmationDelete set a walker sends exactly one
\* directory event for each directory it walks, without it none; the
\* files received from a directory are files listed in it, so an empty
\* directory gives no file event, and a scan of an empty root meets no
\* error and delivers no file event and at most one directory event.
C14_DirectoryEvents ==
    /\ ~mustConfirmationDelete => ReceivedDirs = {}
    /\ mustConfirmationDelete =>
          /\ \A i, j \in ReceivedDirs : i < j => recvd[i] # recvd[j]
          /\ \A k \in ReceivedDirs :
                 \E p \in AllDirs : recvd[k] = DirEvent(p.path)
          /\ \A p \in Entered :
                 \E k \in ReceivedDirs : recvd[k] = DirEvent(p.path)
    /\ \A k \in ReceivedFiles :
           \E p \in AllDirs :
               /\ p.path = recvd[k].DirName
               /\ Identity(recvd[k]) \in DirectFiles(p.dir)
    /\ Dir(RootDir) = Listing(<<>>) =>
          /\ ReceivedFiles = {}
          /\ Len(recvd) <= 1
          /\ ~task[RootDir].err
          /\ proc = "running"

\* The scan of an empty root has returned after its one directory event.
C14_Witness ==
    /\ Dir(RootDir) = Listing(<<>>)
    /\ mustConfirmationDelete
    /\ swPc = "returned"
    /\ recvd = << DirEvent(RootPath) >>

\* Task t is at AddWorker for a subdirectory and the budget is exhausted.
Denied(t) ==
    /\ task[t].pc = "aw_lock"
    /\ ~(maxCountThread = -1 \/ currentThreadCount < maxCountThread)

\* C15: when AddWorker denies admission the calling walker enters the
\* subdirectory itself, in the same task and with the same idWorker; no
\* task is created, currentThreadCount and the WaitGroup are unchanged,
\* no error is recorded and the process goes on; on an error-free tree
\* every directory that got no task of its own has been walked to its end
\* by another task when StartWatch returns.
C15_DeniedWalksInline ==
    /\ [][\A t \in DirIds :
            (Denied(t) /\ task'[t] # task[t]) =>
                /\ task'[t].st = "run"
                /\ task'[t].pc = "start"
                /\ task'[t].stack =
                     Append(task[t].stack,
                            [dir |-> Entry(t).child,
                             path |-> Top(t).path \o "/" \o Entry(t).name,
                             i |-> 1,
                             wid |-> Top(t).wid])
                /\ task'[t].err = task[t].err
                /\ \A u \in DirIds \ {t} : task'[u] = task[u]
                /\ currentThreadCount' = currentThreadCount
                /\ wg' = wg
                /\ proc' = proc
       ]_vars
    /\ [](( ErrorFree /\ swPc = "returned") =>
             \A d \in DirIds \ ({RootDir} \cup Spawned) :
                 \E t \in DirIds : t # d /\ d \in task[t].walked)

\* With the budget exhausted the root has walked a subdirectory and the
\* subdirectory below it in its own task, three frames deep.
C15_Witness ==
    /\ maxCountThread >= 0
    /\ Spawned = {}
    /\ Len(task[RootDir].stack) = 3
    /\ \A k \in 1..3 : task[RootDir].stack[k].wid = 1

\* C16: every file-found event the range loop receives carries the
\* idWorker of the call of StartContentChanges that sent it (1 for the
\* root, the spawner's + 1 for a goroutine, the caller's for an in-line
\* call, which is the wid of the sender's top frame).
C16_EventCarriesWorkerId ==
    [][\A t \in DirIds :
         (/\ Sending(t)
          /\ task[t].pc = "sendFile"
          /\ recvd' = Append(recvd, Pending(t))
          /\ task'[t] # task[t]) =>
             recvd'[Len(recvd')].workerId = Top(t).wid
    ]_vars

\* The walkers blocked in a send on the channel.
Senders == {t \in DirIds : Sending(t)}

\* C17: while the range loop's body is inside the prompt loop (lines
\* 247-277) no send on the channel completes: the received sequence does
\* not grow and every walker blocked in a send stays blocked on the same
\* event, until the prompt is left.
C17_PromptStallsSenders ==
    [][aggPc = "prompt" =>
          /\ recvd' = recvd
          /\ \A t \in Senders : task'[t] = task[t]
    ]_vars

\* The prompt is open, one invalid line has been read, and two walkers are
\* blocked in their sends.
C17_Witness ==
    /\ aggPc = "prompt"
    /\ invalidUsed >= 1
    /\ Cardinality(Senders) >= 2

\* The keys of the file events whose turn of the range loop is over.
HandledKeys ==
    {sMapKey(recvd[k].FileName, recvd[k].FileSize) :
        k \in {j \in ReceivedFiles : Handled(j)}}

\* C18: mapFiles only grows; it holds exactly the keys of the file events
\* received and taken through the body of the range loop so far; the turn
\* of the loop for a directory event leaves mapFiles as it is and reports
\* nothing, and no directory event is ever reported as a duplicate.
C18_ObservedSetGrows ==
    /\ [](mapFiles = HandledKeys)
    /\ [](\A k \in 1..Len(recvd) : ~IsFile(recvd[k]) => ~Flagged(recvd[k]))
    /\ [][/\ mapFiles \subseteq mapFiles'
          /\ (aggPc = "got" /\ ~IsFile(fd)) =>
                 (mapFiles' = mapFiles /\ out' = out)
       ]_vars

\* A finished scan with directory events, two keys in the map and a
\* duplicate reported.
C18_Witness ==
    /\ aggPc = "done"
    /\ \E k \in 1..Len(recvd) : ~IsFile(recvd[k])
    /\ Cardinality(mapFiles) = 2
    /\ \E k \in ReceivedFiles : Flagged(recvd[k])

\* C19: with mustConfirmationDelete set, every file event received was
\* preceded in the received sequence by the directory event of its
\* directory.
C19_DirectoryEventFirst ==
    mustConfirmationDelete =>
        \A j \in ReceivedFiles :
            \E i \in 1..(j - 1) : recvd[i] = DirEvent(recvd[j].DirName)

\* Two walkers' events interleave: between a directory's event and one of
\* its files the aggregator received a file of another directory.
C19_Witness ==
    /\ mustConfirmationDelete
    /\ \E j \in ReceivedFiles : \E i \in 1..(j - 1) : \E k \in (i + 1)..(j - 1) :
          /\ recvd[i] = DirEvent(recvd[j].DirName)
          /\ IsFile(recvd[k])
          /\ recvd[k].DirName # recvd[j].DirName

\* The reports that classify an event as a duplicate.
DuplicateReports == {k \in 1..Len(out) : out[k].kind = "duplicate"}

HandledFiles == {j \in ReceivedFiles : Handled(j)}

Pairs(files) == {<< f.FileName, f.FileSize >> : f \in files}

\* C20: the number of events reported as duplicates is the number of file
\* events handled minus the number of distinct (name, size) pairs among
\* them; when the scan of an error-free tree has ended this is the number
\* of regular files under the root minus the number of distinct pairs
\* among them, whatever the interleaving and maxCountThread.
C20_DuplicateCount ==
    /\ Cardinality(DuplicateReports) =
           Cardinality(HandledFiles)
             - Cardinality(Pairs({recvd[j] : j \in HandledFiles}))
    /\ (ErrorFree /\ aggPc = "done") =>
           Cardinality(DuplicateReports) =
               Cardinality(FilesUnder(RootDir, RootPath))
                 - Cardinality(Pairs(FilesUnder(RootDir, RootPath)))

\* A finished scan by several walkers that reported two duplicates.
C20_Witness ==
    /\ ErrorFree
    /\ aggPc = "done"
    /\ Spawned # {}
    /\ Cardinality(DuplicateReports) = 2

====
